---- MODULE Spec2Model ----
(***************************************************************************)
(* Model of the /analyze pipeline of src/app.py: parse the uploaded CSV,   *)
(* validate every row, score, rank and summarise.                          *)
(*                                                                         *)
(* Strings are sequences of pieces: the piece " " is whitespace, any other *)
(* piece is a run of non-whitespace text (one character for cell values).  *)
(* Floats are records [k, v]: k = "num" with v the value in hundredths,    *)
(* k = "nan", k = "inf" / "-inf", or k = "err" for a ValueError of float().*)
(***************************************************************************)
EXTENDS Integers, Sequences, FiniteSets, TLC

VARIABLES upload, pc, rows, all_errors, results, response

vars == <<upload, pc, rows, all_errors, results, response>>

(* Largest number of data rows of an upload with plain cells. *)
MaxRows == 3

----------------------------------------------------------------------------
(* str.strip() *)

RECURSIVE LStrip(_)
LStrip(s) ==
    IF s # <<>> /\ Head(s) = " " THEN LStrip(Tail(s)) ELSE s

RECURSIVE RStrip(_)
RStrip(s) ==
    IF s # <<>> /\ s[Len(s)] = " " THEN RStrip(SubSeq(s, 1, Len(s) - 1)) ELSE s

Strip(s) == RStrip(LStrip(s))

----------------------------------------------------------------------------
(* float(): decimal literals with at most two fraction digits, "nan" and   *)
(* "inf"; any other text raises ValueError.                                *)

Digits == {"0", "1", "2", "3", "4", "5", "6", "7", "8", "9"}

DigitVal(c) ==
    CASE c = "0" -> 0 [] c = "1" -> 1 [] c = "2" -> 2 [] c = "3" -> 3
      [] c = "4" -> 4 [] c = "5" -> 5 [] c = "6" -> 6 [] c = "7" -> 7
      [] c = "8" -> 8 [] c = "9" -> 9

RECURSIVE DecVal(_)
DecVal(s) ==
    IF s = <<>> THEN 0 ELSE 10 * DecVal(SubSeq(s, 1, Len(s) - 1)) + DigitVal(s[Len(s)])

AllDigits(s) == \A i \in 1..Len(s) : s[i] \in Digits

Num(v) == [k |-> "num", v |-> v]
NaN == [k |-> "nan", v |-> 0]
PosInf == [k |-> "inf", v |-> 0]
NegInf == [k |-> "-inf", v |-> 0]
FloatValueError == [k |-> "err", v |-> 0]

DotAt(s) == {i \in 1..Len(s) : s[i] = "."}

ParseFloat(s) ==
    IF s = <<"n", "a", "n">> THEN NaN
    ELSE IF s = <<"i", "n", "f">> THEN PosInf
    ELSE IF s = <<"-", "i", "n", "f">> THEN NegInf
    ELSE IF s # <<>> /\ AllDigits(s) THEN Num(100 * DecVal(s))
    ELSE IF Cardinality(DotAt(s)) = 1
         THEN LET d == CHOOSE i \in DotAt(s) : TRUE
                  ip == SubSeq(s, 1, d - 1)
                  fp == SubSeq(s, d + 1, Len(s))
              IN  IF AllDigits(ip) /\ AllDigits(fp) /\ Len(ip) + Len(fp) > 0 /\ Len(fp) <= 2
                  THEN Num(100 * DecVal(ip)
                           + (IF Len(fp) = 1 THEN 10 * DecVal(fp) ELSE DecVal(fp)))
                  ELSE FloatValueError
    ELSE FloatValueError

(* float comparisons: every comparison with nan is false *)
FLt(a, b) ==
    CASE a.k = "nan" \/ b.k = "nan" -> FALSE
      [] a.k = "-inf" -> b.k # "-inf"
      [] a.k = "inf" -> FALSE
      [] b.k = "-inf" -> FALSE
      [] b.k = "inf" -> TRUE
      [] OTHER -> a.v < b.v

FGt(a, b) == FLt(b, a)

FEq(a, b) == a.k # "nan" /\ b.k # "nan" /\ a = b

FGe(a, b) == FGt(a, b) \/ FEq(a, b)

FLe(a, b) == FLt(a, b) \/ FEq(a, b)

----------------------------------------------------------------------------
(* Configuration *)

ProjectName == <<"Project Name">>
ImpactScore == <<"Impact Score">>
UrgencyScore == <<"Urgency Score">>
EffortScore == <<"Effort Score">>
CostScore == <<"Cost Score">>

REQUIRED_COLUMNS == {ProjectName, ImpactScore, UrgencyScore, EffortScore, CostScore}

(* WEIGHTS, in hundredths *)
WeightImpact == 35
WeightUrgency == 30
WeightEffort == 20
WeightCost == 15

(* the literals 1, 5, 6, 3.8, 2.8, 4 and 2 of the source, in hundredths *)
RangeLow == 100
RangeHigh == 500
InvertFrom == 600
HighThreshold == 380
MediumThreshold == 280
TagHigh == 400
TagLow == 200

----------------------------------------------------------------------------
(* A parsed row is a function from field names to cells; a cell is         *)
(* Some(text), or None where csv.DictReader filled in its restval.         *)

Some(s) == [some |-> TRUE, s |-> s]
None == [some |-> FALSE, s |-> <<>>]

(* row.get(field, "") *)
RowGet(row, field) == IF field \in DOMAIN row THEN row[field] ELSE Some(<<>>)

ErrMissing == "is missing or empty"
ErrRange == "must be between 1 and 5"
ErrNumber == "must be a number"

Error(idx, field, msg, num, val) ==
    [row |-> idx, field |-> field, msg |-> msg, num |-> num, val |-> val]

score_fields == <<ImpactScore, UrgencyScore, EffortScore, CostScore>>

(* One pass of the loop body of validate_row for a cell that is text. *)
CheckScore(idx, field, text) ==
    LET val == Strip(text)
        num == ParseFloat(val)
    IN  IF val = <<>> THEN <<Error(idx, field, ErrMissing, FloatValueError, <<>>)>>
        ELSE IF num.k = "err" THEN <<Error(idx, field, ErrNumber, FloatValueError, val)>>
        ELSE IF FLt(num, Num(RangeLow)) \/ FGt(num, Num(RangeHigh))
             THEN <<Error(idx, field, ErrRange, num, val)>>
        ELSE <<>>

(* The loop over score_fields; calling .strip() on None raises. *)
RECURSIVE ValidateScoresFirstOnly(_, _, _)
ValidateScoresFirstOnly(row, idx, fields) ==
    IF fields = <<>> THEN [raised |-> FALSE, errors |-> <<>>]
    ELSE LET cell == RowGet(row, Head(fields))
         IN  IF ~cell.some THEN [raised |-> TRUE, errors |-> <<>>]
             ELSE LET here == CheckScore(idx, Head(fields), cell.s)
                      rest == ValidateScoresFirstOnly(row, idx, Tail(fields))
                  IN  IF here # <<>> THEN [raised |-> FALSE, errors |-> here]
                      ELSE rest

RECURSIVE ValidateScores(_, _, _)
ValidateScores(row, idx, fields) ==
    IF fields = <<>> THEN [raised |-> FALSE, errors |-> <<>>]
    ELSE LET cell == RowGet(row, Head(fields))
         IN  IF ~cell.some THEN [raised |-> TRUE, errors |-> <<>>]
             ELSE LET here == CheckScore(idx, Head(fields), cell.s)
                      rest == ValidateScores(row, idx, Tail(fields))
                  IN  [raised |-> rest.raised,
                       errors |-> IF rest.raised THEN <<>> ELSE here \o rest.errors]

validate_row(row, row_index) ==
    LET sc == ValidateScores(row, row_index, score_fields)
        name == RowGet(row, ProjectName)
    IN  IF sc.raised \/ ~name.some THEN [raised |-> TRUE, errors |-> <<>>]
        ELSE IF Strip(name.s) = <<>>
             THEN [raised |-> FALSE,
                   errors |-> Append(sc.errors,
                                     Error(row_index, ProjectName, ErrMissing,
                                           FloatValueError, <<>>))]
        ELSE sc

----------------------------------------------------------------------------
(* Scoring *)

(* round(x, 2) of a value held in units of 1e-4, to hundredths.  No input  *)
(* of the model lands on a tie, where the binary expansion would decide.   *)
Round2(raw) ==
    LET q == raw \div 100
        r == raw % 100
    IN  IF r < 50 THEN q
        ELSE IF r > 50 THEN q + 1
        ELSE IF q % 2 = 0 THEN q ELSE q + 1

RawScore(impact, urgency, effort, cost) ==
    impact.v * WeightImpact
      + urgency.v * WeightUrgency
      + (InvertFrom - effort.v) * WeightEffort
      + (InvertFrom - cost.v) * WeightCost

(* an infinite term keeps its sign under a positive weight; 6 - x flips it; *)
(* inf + -inf is nan; round(nan, 2) is nan and round(inf, 2) is inf        *)
calculate_priority_score(impact, urgency, effort, cost) ==
    LET up == {x \in {impact, urgency} : x.k = "inf"}
                \cup {x \in {effort, cost} : x.k = "-inf"}
        down == {x \in {impact, urgency} : x.k = "-inf"}
                  \cup {x \in {effort, cost} : x.k = "inf"}
    IN  IF \E x \in {impact, urgency, effort, cost} : x.k = "nan" THEN NaN
        ELSE IF up # {} /\ down # {} THEN NaN
        ELSE IF up # {} THEN PosInf
        ELSE IF down # {} THEN NegInf
        ELSE Num(Round2(RawScore(impact, urgency, effort, cost)))

CategoryStrict(score) ==
    IF FGt(score, Num(HighThreshold)) THEN "High"
    ELSE IF FGt(score, Num(MediumThreshold)) THEN "Medium"
    ELSE "Low"

get_priority_category(score) ==
    IF FGe(score, Num(HighThreshold)) THEN "High"
    ELSE IF FGe(score, Num(MediumThreshold)) THEN "Medium"
    ELSE "Low"

TagHighImpact == "High Impact"
TagUrgent == "Urgent"
TagLowEffort == "Low Effort"
TagCostEfficient == "Cost Efficient"
(* the source marks the two caution tags with a warning sign *)
TagHighEffort == "High Effort (!)"
TagExpensive == "Expensive (!)"
Balanced == "Balanced"
Separator == ", "

(* ", ".join(tags) *)
RECURSIVE Join(_)
Join(tags) ==
    IF Len(tags) <= 1 THEN tags
    ELSE <<Head(tags), Separator>> \o Join(Tail(tags))

TagsElseChain(impact, urgency, effort, cost) ==
    (IF FGe(impact, Num(TagHigh)) THEN <<TagHighImpact>> ELSE <<>>)
      \o (IF FGe(urgency, Num(TagHigh)) THEN <<TagUrgent>> ELSE <<>>)
      \o (IF FLe(effort, Num(TagLow)) THEN <<TagLowEffort>>
          ELSE IF FGe(effort, Num(TagHigh)) THEN <<TagHighEffort>> ELSE <<>>)
      \o (IF FLe(cost, Num(TagLow)) THEN <<TagCostEfficient>>
          ELSE IF FGe(cost, Num(TagHigh)) THEN <<TagExpensive>> ELSE <<>>)

Tags(impact, urgency, effort, cost) ==
    (IF FGe(impact, Num(TagHigh)) THEN <<TagHighImpact>> ELSE <<>>)
      \o (IF FGe(urgency, Num(TagHigh)) THEN <<TagUrgent>> ELSE <<>>)
      \o (IF FLe(effort, Num(TagLow)) THEN <<TagLowEffort>> ELSE <<>>)
      \o (IF FLe(cost, Num(TagLow)) THEN <<TagCostEfficient>> ELSE <<>>)
      \o (IF FGe(effort, Num(TagHigh)) THEN <<TagHighEffort>> ELSE <<>>)
      \o (IF FGe(cost, Num(TagHigh)) THEN <<TagExpensive>> ELSE <<>>)

get_explanation(impact, urgency, effort, cost) ==
    LET tags == Tags(impact, urgency, effort, cost)
    IN  IF tags # <<>> THEN Join(tags) ELSE <<Balanced>>

----------------------------------------------------------------------------
(* list.sort(key=..., reverse=True) for lists shorter than 64 elements, as *)
(* CPython runs it: reverse, find the leading run, binary insertion sort   *)
(* with "<" on the keys as the only comparison, reverse again.             *)

Reverse(a) == [i \in 1..Len(a) |-> a[Len(a) + 1 - i]]

KeyLt(x, y) == FLt(x.priority_score, y.priority_score)

RECURSIVE RunEnd(_, _, _)
RunEnd(a, k, desc) ==
    IF k > Len(a) THEN Len(a)
    ELSE IF KeyLt(a[k], a[k - 1]) = desc THEN RunEnd(a, k + 1, desc)
    ELSE k - 1

RECURSIVE BSearch(_, _, _, _)
BSearch(a, pivot, l, r) ==
    IF l < r
    THEN LET p == l + ((r - l) \div 2)
         IN  IF KeyLt(pivot, a[p + 1]) THEN BSearch(a, pivot, l, p)
             ELSE BSearch(a, pivot, p + 1, r)
    ELSE l

RECURSIVE BinarySort(_, _)
BinarySort(a, i) ==
    IF i > Len(a) THEN a
    ELSE LET pos == BSearch(a, a[i], 0, i - 1)
         IN  BinarySort(SubSeq(a, 1, pos) \o <<a[i]>> \o SubSeq(a, pos + 1, i - 1)
                          \o SubSeq(a, i + 1, Len(a)),
                        i + 1)

ListSortAscending(a) ==
    IF Len(a) < 2 THEN a
    ELSE LET desc == KeyLt(a[2], a[1])
             n == RunEnd(a, 3, desc)
             run == IF desc THEN Reverse(SubSeq(a, 1, n)) \o SubSeq(a, n + 1, Len(a))
                    ELSE a
         IN  BinarySort(run, n + 1)

SortByScoreDescending(a) == Reverse(ListSortAscending(Reverse(a)))

----------------------------------------------------------------------------
(* csv.DictReader *)

None_header == [some |-> FALSE, s |-> <<>>]

(* reader.fieldnames = [f.strip() for f in reader.fieldnames] *)
FieldNames(header) == [i \in 1..Len(header) |-> Strip(header[i])]

(* One row of list(reader): dict(zip(fieldnames, line)), and restval None  *)
(* for the fields the line is too short for.  Cells beyond the header go   *)
(* under the restkey, which no code reads.                                 *)
DictRow(fieldnames, line) ==
    [f \in {fieldnames[i] : i \in 1..Len(fieldnames)} |->
        LET last == CHOOSE i \in 1..Len(fieldnames) :
                        /\ fieldnames[i] = f
                        /\ \A j \in 1..Len(fieldnames) : fieldnames[j] = f => j <= i
        IN  IF last <= Len(line) THEN Some(line[last]) ELSE None]

(* sorted(missing): the required names in alphabetical order *)
Alphabetical == <<CostScore, EffortScore, ImpactScore, ProjectName, UrgencyScore>>

Sorted(names) == SelectSeq(Alphabetical, LAMBDA c : c \in names)

MissingColumnsUntrimmed(header) ==
    REQUIRED_COLUMNS \ {header[i] : i \in 1..Len(header)}

MissingColumns(header) ==
    REQUIRED_COLUMNS \ {FieldNames(header)[i] : i \in 1..Len(header)}

----------------------------------------------------------------------------
(* Responses of analyze *)

NoSummary == [high |-> 0, medium |-> 0, low |-> 0]

Response(status, kind, missing, errors, total, summary, projects) ==
    [status |-> status, kind |-> kind, missing |-> missing, errors |-> errors,
     total_projects |-> total, summary |-> summary, projects |-> projects]

Pending == Response(0, "pending", <<>>, <<>>, 0, NoSummary, <<>>)

BadRequest(kind, missing, errors) ==
    Response(400, kind, missing, errors, 0, NoSummary, <<>>)

(* an exception no handler catches *)
Unhandled == Response(500, "AttributeError", <<>>, <<>>, 0, NoSummary, <<>>)

----------------------------------------------------------------------------
(* The uploads *)

CanonicalHeader == <<ProjectName, ImpactScore, UrgencyScore, EffortScore, CostScore>>

Headers ==
    { CanonicalHeader,
      << <<" ", "Project Name">>, <<"Impact Score", " ">>, UrgencyScore,
         <<" ", "Effort Score", " ">>, CostScore >>,
      << ProjectName, ImpactScore, UrgencyScore, EffortScore, CostScore, <<"Notes">> >>,
      << ImpactScore, UrgencyScore, EffortScore, CostScore, ProjectName >>,
      << ProjectName, ImpactScore, UrgencyScore, EffortScore >>,
      << ProjectName, <<"Notes">>, EffortScore, CostScore >>,
      << <<"project name">>, ImpactScore, UrgencyScore, EffortScore, CostScore >>,
      << >> }

HeaderLines ==
    { << <<"A">>, <<"3">>, <<"3">>, <<"3">>, <<"3">> >>,
      << <<"A">>, <<"3">>, <<"4">>, <<"2">>, <<"1">>, <<"x">> >>,
      << <<"3">>, <<"3">>, <<"7">>, <<"3">> >>,
      << <<"B">> >> }

(* cells that exercise every branch of the validator *)
RichCells ==
    { <<" ">>, <<"x">>, <<"0">>, <<"6">>, <<" ", "4", " ">>, <<"3", ".", "2", "6">>,
      <<"n", "a", "n">>, <<"i", "n", "f">> }

RichNames == { <<"A">>, <<>> }

(* cells that pass the validator: every whole score, and two fractions *)
ValidCells ==
    { <<"1">>, <<"2">>, <<"3">>, <<"4">>, <<"5">>, <<"2", ".", "8">>, <<"3", ".", "2", "6">> }

PlainLines ==
    { << <<"A">>, i, u, <<"3">>, c >> :
          i \in {<<"2">>, <<"4">>},
          u \in {<<"2">>, <<"4">>},
          c \in {<<"1">>, <<"5">>} }
      \cup { << <<"A">>, <<"n", "a", "n">>, <<"2">>, <<"3">>, <<"1">> >>,
             << <<"A">>, <<"9">>, <<"2">>, <<"3">>, <<"1">> >>,
             << <<" ">>, <<"x">>, <<"2">>, <<"0">>, <<>> >>,
             << <<"A">>, <<"2">>, <<"2">>, <<"3">> >> }

RECURSIVE SeqsUpTo(_, _)
SeqsUpTo(S, n) ==
    IF n = 0 THEN {<<>>}
    ELSE LET shorter == SeqsUpTo(S, n - 1)
         IN  shorter \cup {Append(q, x) : q \in shorter, x \in S}

Upload(decodable, header, lines) ==
    [decodable |-> decodable, header |-> header, lines |-> lines]

(* bytes that do not decode, and the file of zero bytes *)
InitDegenerate ==
    \E d \in BOOLEAN : upload = Upload(d, None_header, <<>>)

(* every header, over a few lines *)
InitHeaders ==
    \E h \in Headers, l \in SeqsUpTo(HeaderLines, 2) : upload = Upload(TRUE, Some(h), l)

(* one line, every combination of cells the validator tells apart *)
InitRich ==
    \E n \in RichNames, i \in RichCells, u \in RichCells, e \in RichCells, c \in RichCells :
        upload = Upload(TRUE, Some(CanonicalHeader), << <<n, i, u, e, c>> >>)

(* one line, every combination of valid scores *)
InitValid ==
    \E i \in ValidCells, u \in ValidCells, e \in ValidCells, c \in ValidCells :
        upload = Upload(TRUE, Some(CanonicalHeader), << << <<"A">>, i, u, e, c >> >>)

(* several lines *)
InitPlain ==
    \E l \in SeqsUpTo(PlainLines, MaxRows) : upload = Upload(TRUE, Some(CanonicalHeader), l)

----------------------------------------------------------------------------
(* analyze *)

Init ==
    /\ InitDegenerate \/ InitHeaders \/ InitRich \/ InitValid \/ InitPlain
    /\ pc = "parse"
    /\ rows = <<>>
    /\ all_errors = <<>>
    /\ results = <<>>
    /\ response = Pending

Finish(r) ==
    /\ response' = r
    /\ pc' = "done"

(* Read and parse CSV *)
ParseCSV ==
    /\ pc = "parse"
    /\ UNCHANGED <<upload, all_errors, results>>
    /\ IF ~upload.decodable
       THEN Finish(BadRequest("decode", <<>>, <<>>)) /\ rows' = <<>>
       ELSE IF ~upload.header.some
       THEN Finish(BadRequest("empty", <<>>, <<>>)) /\ rows' = <<>>
       ELSE IF MissingColumns(upload.header.s) # {}
       THEN /\ Finish(BadRequest("missing_columns",
                                 Sorted(MissingColumns(upload.header.s)), <<>>))
            /\ rows' = <<>>
       ELSE LET fieldnames == FieldNames(upload.header.s)
                parsed == [i \in 1..Len(upload.lines) |->
                              DictRow(fieldnames, upload.lines[i])]
            IN  /\ rows' = parsed
                /\ IF parsed = <<>>
                   THEN Finish(BadRequest("no_rows", <<>>, <<>>))
                   ELSE pc' = "validate" /\ UNCHANGED response

(* the loop over enumerate(rows, start=2), up to the first exception *)
RowIndex(k) == k + 1

RECURSIVE ValidateAll(_, _)
ValidateAll(rs, k) ==
    IF k > Len(rs) THEN [raised |-> FALSE, errors |-> <<>>]
    ELSE LET here == validate_row(rs[k], RowIndex(k))
         IN  IF here.raised THEN here
             ELSE LET rest == ValidateAll(rs, k + 1)
                  IN  [raised |-> rest.raised, errors |-> here.errors \o rest.errors]

(* Validate rows *)
ValidateRows ==
    /\ pc = "validate"
    /\ UNCHANGED <<upload, rows, results>>
    /\ LET v == ValidateAll(rows, 1)
       IN  IF v.raised
           THEN Finish(Unhandled) /\ all_errors' = v.errors
           ELSE /\ all_errors' = v.errors
                /\ IF v.errors # <<>>
                   THEN Finish(BadRequest("validation", <<>>, v.errors))
                   ELSE pc' = "score" /\ UNCHANGED response

(* One pass of the scoring loop; src is the position of the row in the     *)
(* input, kept for the statements about input order.                       *)
ScoreRow(row, k) ==
    LET impact == ParseFloat(Strip(row[ImpactScore].s))
        urgency == ParseFloat(Strip(row[UrgencyScore].s))
        effort == ParseFloat(Strip(row[EffortScore].s))
        cost == ParseFloat(Strip(row[CostScore].s))
        score == calculate_priority_score(impact, urgency, effort, cost)
    IN  [project_name |-> Strip(row[ProjectName].s),
         impact |-> impact, urgency |-> urgency, effort |-> effort, cost |-> cost,
         priority_score |-> score,
         priority_category |-> get_priority_category(score),
         explanation |-> get_explanation(impact, urgency, effort, cost),
         rank |-> 0,
         src |-> k]

(* Score *)
ScoreRows ==
    /\ pc = "score"
    /\ results' = [k \in 1..Len(rows) |-> ScoreRow(rows[k], k)]
    /\ pc' = "rank"
    /\ UNCHANGED <<upload, rows, all_errors, response>>

(* for rank, project in enumerate(results, start=1) *)
RECURSIVE CompetitionRank(_, _)
CompetitionRank(a, k) ==
    IF k = 1 THEN 1
    ELSE IF FEq(a[k].priority_score, a[k - 1].priority_score)
         THEN CompetitionRank(a, k - 1)
    ELSE k

AssignRanksShared(a) == [k \in 1..Len(a) |-> [a[k] EXCEPT !.rank = CompetitionRank(a, k)]]

AssignRanks(a) == [k \in 1..Len(a) |-> [a[k] EXCEPT !.rank = k]]

(* Sort descending by priority score, add rank *)
SortAndRank ==
    /\ pc = "rank"
    /\ results' = AssignRanks(SortByScoreDescending(results))
    /\ pc' = "summary"
    /\ UNCHANGED <<upload, rows, all_errors, response>>

CountCategoryAtLeast(a, category) ==
    Cardinality({k \in 1..Len(a) :
                    \/ a[k].priority_category = category
                    \/ category = "Medium" /\ a[k].priority_category = "High"})

CountCategory(a, category) ==
    Cardinality({k \in 1..Len(a) : a[k].priority_category = category})

(* Summary stats and the success response *)
Summarize ==
    /\ pc = "summary"
    /\ Finish(Response(200, "success", <<>>, <<>>, Len(results),
                       [high |-> CountCategory(results, "High"),
                        medium |-> CountCategory(results, "Medium"),
                        low |-> CountCategory(results, "Low")],
                       results))
    /\ UNCHANGED <<upload, rows, all_errors, results>>

Next ==
    \/ ParseCSV
    \/ ValidateRows
    \/ ScoreRows
    \/ SortAndRank
    \/ Summarize

Spec == Init /\ [][Next]_vars

----------------------------------------------------------------------------
(* The input as the statements below speak of it *)

Done == pc = "done"

Succeeded == Done /\ response.kind = "success"

TrimmedNames == {Strip(upload.header.s[i]) : i \in 1..Len(upload.header.s)}

HeaderPasses ==
    upload.decodable /\ upload.header.some /\ REQUIRED_COLUMNS \subseteq TrimmedNames

NumRows == Len(upload.lines)

InputRow(k) == DictRow(FieldNames(upload.header.s), upload.lines[k])

FiveFields == <<ImpactScore, UrgencyScore, EffortScore, CostScore, ProjectName>>

FieldPos(f) == CHOOSE i \in 1..Len(FiveFields) : FiveFields[i] = f

AlphaPos(c) == CHOOSE i \in 1..Len(Alphabetical) : Alphabetical[i] = c

Returned(k) == validate_row(InputRow(k), k + 1)

YieldsError(k) == ~Returned(k).raised /\ Returned(k).errors # <<>>

(* C1: all-or-nothing.  With a passing header, if some data row yields a   *)
(* validation error, analyze returns the single validation failure and no  *)
(* row is scored, ranked or counted; success only when no row has errors.  *)
C1_AllOrNothing ==
    HeaderPasses =>
        /\ (\E k \in 1..NumRows : YieldsError(k)) =>
              /\ results = <<>>
              /\ Done => /\ response.kind = "validation"
                         /\ response.status = 400
                         /\ response.projects = <<>>
                         /\ response.total_projects = 0
                         /\ response.summary = NoSummary
        /\ Succeeded =>
              \A k \in 1..NumRows : ~Returned(k).raised /\ Returned(k).errors = <<>>

PassesValidation ==
    /\ HeaderPasses
    /\ NumRows > 0
    /\ \A k \in 1..NumRows : ~Returned(k).raised /\ Returned(k).errors = <<>>

(* C2: an input that passes validation with N data rows ends in a success  *)
(* result with exactly N projects, total_projects = N, exactly one project *)
(* per input row, and the ranks 1..N each used once, also under ties.      *)
C2_OneProjectPerRowRanksPermutation ==
    (Done /\ PassesValidation) =>
        LET ps == response.projects
            N == NumRows
        IN  /\ response.kind = "success"
            /\ Len(ps) = N
            /\ response.total_projects = N
            /\ \A k \in 1..N :
                  /\ Cardinality({i \in 1..Len(ps) : ps[i].src = k}) = 1
                  /\ \E i \in 1..Len(ps) :
                        /\ ps[i].src = k
                        /\ ps[i].project_name = Strip(InputRow(k)[ProjectName].s)
                        /\ ps[i].impact = ParseFloat(Strip(InputRow(k)[ImpactScore].s))
                        /\ ps[i].urgency = ParseFloat(Strip(InputRow(k)[UrgencyScore].s))
                        /\ ps[i].effort = ParseFloat(Strip(InputRow(k)[EffortScore].s))
                        /\ ps[i].cost = ParseFloat(Strip(InputRow(k)[CostScore].s))
            /\ {ps[i].rank : i \in 1..Len(ps)} = 1..N
            /\ \A i, j \in 1..Len(ps) : i # j => ps[i].rank # ps[j].rank

C2_Witness ==
    /\ Succeeded
    /\ Len(response.projects) = 3
    /\ \E i, j \in 1..3 :
          /\ i # j
          /\ FEq(response.projects[i].priority_score, response.projects[j].priority_score)

(* C3: in every success result the projects are ordered by priority_score  *)
(* descending and ties keep input order: for ranks i < j, score(i) >       *)
(* score(j), or the scores are equal and i came earlier in the input.      *)
C3_SortedDescendingStable ==
    Succeeded =>
        \A i, j \in 1..Len(response.projects) :
            LET p == response.projects[i]
                q == response.projects[j]
            IN  p.rank < q.rank =>
                    \/ FGt(p.priority_score, q.priority_score)
                    \/ FEq(p.priority_score, q.priority_score) /\ p.src < q.src

RECURSIVE Tally(_, _)
Tally(ps, category) ==
    IF ps = <<>> THEN 0
    ELSE (IF Head(ps).priority_category = category THEN 1 ELSE 0) + Tally(Tail(ps), category)

(* C4: in every success result high, medium and low equal the number of    *)
(* projects of category High, Medium and Low, and add up to total_projects.*)
C4_SummaryCounts ==
    Succeeded =>
        /\ response.summary.high = Tally(response.projects, "High")
        /\ response.summary.medium = Tally(response.projects, "Medium")
        /\ response.summary.low = Tally(response.projects, "Low")
        /\ response.summary.high + response.summary.medium + response.summary.low
             = response.total_projects

C4_Witness ==
    /\ Succeeded
    /\ response.summary.high > 0
    /\ response.summary.medium > 0
    /\ response.summary.low > 0

Whole(x) == x.k = "num" /\ x.v \in {100, 200, 300, 400, 500}

(* C5: for impact, urgency, effort, cost in 1..5 the score in hundredths   *)
(* is 35*impact + 30*urgency + 20*(6-effort) + 15*(6-cost); the category   *)
(* is High iff score >= 380, Medium iff 280 <= score < 380, Low otherwise  *)
(* (the bands hold for every finite score, so 2.79 is Low).                *)
C5_ScoreAndCategory ==
    \A n \in 1..Len(results) :
        LET p == results[n]
            h == p.priority_score.v
        IN  /\ (Whole(p.impact) /\ Whole(p.urgency) /\ Whole(p.effort) /\ Whole(p.cost)) =>
                  /\ p.priority_score.k = "num"
                  /\ h = 35 * (p.impact.v \div 100) + 30 * (p.urgency.v \div 100)
                           + 20 * (6 - (p.effort.v \div 100)) + 15 * (6 - (p.cost.v \div 100))
            /\ p.priority_score.k = "num" =>
                  /\ p.priority_category = "High" <=> h >= 380
                  /\ p.priority_category = "Medium" <=> (h >= 280 /\ h < 380)
                  /\ p.priority_category = "Low" <=> h < 280

C5_Witness ==
    \E n \in 1..Len(results) :
        /\ Whole(results[n].impact) /\ Whole(results[n].urgency)
        /\ Whole(results[n].effort) /\ Whole(results[n].cost)
        /\ results[n].priority_score = Num(380)
        /\ results[n].priority_category = "High"

InRange(x) == x.k = "num" /\ x.v >= 100 /\ x.v <= 500

SixTags ==
    <<TagHighImpact, TagUrgent, TagLowEffort, TagCostEfficient, TagHighEffort, TagExpensive>>

TagPos(t) == CHOOSE i \in 1..Len(SixTags) : SixTags[i] = t

Applies(t, p) ==
    CASE t = TagHighImpact -> p.impact.v >= 400
      [] t = TagUrgent -> p.urgency.v >= 400
      [] t = TagLowEffort -> p.effort.v <= 200
      [] t = TagCostEfficient -> p.cost.v <= 200
      [] t = TagHighEffort -> p.effort.v >= 400
      [] t = TagExpensive -> p.cost.v >= 400

(* the tags of a joined explanation: every other piece, separators between *)
TagsOf(e) == [i \in 1..((Len(e) + 1) \div 2) |-> e[2 * i - 1]]

(* C6: for valid inputs the explanation is exactly the tags whose          *)
(* condition holds, in the fixed order and without repeats; it is the      *)
(* single literal "Balanced" iff no condition holds, and "Balanced" never  *)
(* stands beside another tag.                                              *)
C6_ExplanationTags ==
    \A n \in 1..Len(results) :
        LET p == results[n]
            e == p.explanation
            ts == TagsOf(e)
        IN  (InRange(p.impact) /\ InRange(p.urgency) /\ InRange(p.effort) /\ InRange(p.cost)) =>
                /\ Len(e) % 2 = 1
                /\ \A i \in 1..Len(e) : i % 2 = 0 => e[i] = Separator
                /\ (\A t \in {SixTags[i] : i \in 1..6} : ~Applies(t, p)) <=> e = <<Balanced>>
                /\ (\E i \in 1..Len(ts) : ts[i] = Balanced) => e = <<Balanced>>
                /\ e # <<Balanced>> =>
                      /\ \A i \in 1..Len(ts) : ts[i] \in {SixTags[k] : k \in 1..6}
                      /\ \A t \in {SixTags[k] : k \in 1..6} :
                            Applies(t, p) <=> \E i \in 1..Len(ts) : ts[i] = t
                      /\ \A i, j \in 1..Len(ts) : i < j => TagPos(ts[i]) < TagPos(ts[j])

C6_Witness ==
    \E n \in 1..Len(results) :
        /\ InRange(results[n].impact) /\ InRange(results[n].urgency)
        /\ InRange(results[n].effort) /\ InRange(results[n].cost)
        /\ results[n].explanation
             = <<TagHighImpact, Separator, TagCostEfficient, Separator, TagHighEffort>>

(* what the statements call an error of one field of the k-th data row *)
FieldBad(k, f) ==
    LET cell == InputRow(k)[f]
        val == Strip(cell.s)
        num == ParseFloat(val)
    IN  IF f = ProjectName THEN val = <<>>
        ELSE \/ val = <<>>
             \/ num.k = "err"
             \/ num.k \in {"inf", "-inf"}
             \/ num.k = "num" /\ (num.v < 100 \/ num.v > 500)

(* C7: the combined validation report lists every error of every row:      *)
(* ascending row number with the k-th data row reported as row k+1, within *)
(* a row in the order Impact, Urgency, Effort, Cost, Project Name, at most *)
(* one error per field, and no error hides another field or a later row.   *)
C7_ReportListsEveryError ==
    (Done /\ response.kind = "validation") =>
        LET es == response.errors
        IN  /\ \A i \in 1..Len(es) :
                  /\ es[i].row \in 2..(NumRows + 1)
                  /\ es[i].field \in {FiveFields[n] : n \in 1..5}
            /\ \A i, j \in 1..Len(es) :
                  i < j => \/ es[i].row < es[j].row
                           \/ /\ es[i].row = es[j].row
                              /\ FieldPos(es[i].field) < FieldPos(es[j].field)
            /\ \A k \in 1..NumRows : \A f \in {FiveFields[n] : n \in 1..5} :
                  FieldBad(k, f) <=> \E i \in 1..Len(es) : es[i].row = k + 1 /\ es[i].field = f

C7_Witness ==
    /\ Done
    /\ response.kind = "validation"
    /\ \E i, j, m \in 1..Len(response.errors) :
          /\ response.errors[i].row = 2
          /\ response.errors[i].msg = ErrRange
          /\ response.errors[j].row = 3
          /\ response.errors[j].field = ImpactScore
          /\ response.errors[m].row = 3
          /\ response.errors[m].field = ProjectName

Absent == {c \in REQUIRED_COLUMNS : \A i \in 1..Len(upload.header.s) : Strip(upload.header.s[i]) # c}

(* C8: the structural failures are distinct, exclude one another and come  *)
(* before any row is validated: no header row gives the empty-input        *)
(* failure; a header lacking a required column gives the missing-columns   *)
(* failure naming exactly the absent columns in sorted order, with or      *)
(* without data rows; a complete header (names trimmed, extra columns      *)
(* ignored) with zero data rows gives the no-data-rows failure.            *)
C8_StructuralFailures ==
    (Done /\ upload.decodable) =>
        /\ ~upload.header.some <=> response.kind = "empty"
        /\ (upload.header.some /\ Absent # {}) <=> response.kind = "missing_columns"
        /\ (upload.header.some /\ Absent = {} /\ NumRows = 0) <=> response.kind = "no_rows"
        /\ response.kind = "missing_columns" =>
              /\ {response.missing[i] : i \in 1..Len(response.missing)} = Absent
              /\ \A i, j \in 1..Len(response.missing) :
                    i < j => AlphaPos(response.missing[i]) < AlphaPos(response.missing[j])
        /\ response.kind \in {"empty", "missing_columns", "no_rows"} =>
              /\ response.status = 400
              /\ all_errors = <<>>
              /\ results = <<>>
              /\ response.errors = <<>>

C8_Witness ==
    /\ Done
    /\ response.kind = "missing_columns"
    /\ Len(response.missing) = 2
    /\ NumRows = 0

(* C9: every data row in which a required field has no value, blank after  *)
(* trimming or absent because the row is short, ends the run in the        *)
(* validation failure with a "missing or empty" error for that row and     *)
(* field; analyze ends in the success value or a failure value only.       *)
C9_MissingValuesAreValidationErrors ==
    (Done /\ HeaderPasses) =>
        /\ response.status \in {200, 400}
        /\ \A k \in 1..NumRows : \A f \in REQUIRED_COLUMNS :
              (~InputRow(k)[f].some \/ Strip(InputRow(k)[f].s) = <<>>) =>
                  /\ response.kind = "validation"
                  /\ \E i \in 1..Len(response.errors) :
                        /\ response.errors[i].row = k + 1
                        /\ response.errors[i].field = f
                        /\ response.errors[i].msg = ErrMissing

(* C10: every record that reaches scoring has impact, urgency, effort and  *)
(* cost in [1,5]: a value that parses as a number outside [1,5], nan and   *)
(* inf included, gives a "must be between 1 and 5" error, so no project of *)
(* a success result carries an input outside [1,5].                        *)
C10_ScoredInputsInRange ==
    /\ \A n \in 1..Len(results) :
          /\ InRange(results[n].impact)
          /\ InRange(results[n].urgency)
          /\ InRange(results[n].effort)
          /\ InRange(results[n].cost)
    /\ (Done /\ response.kind \in {"success", "validation"}) =>
          \A k \in 1..NumRows : \A n \in 1..4 :
              LET f == score_fields[n]
                  num == ParseFloat(Strip(InputRow(k)[f].s))
              IN  (num.k # "err" /\ ~InRange(num)) =>
                      /\ response.kind = "validation"
                      /\ \E i \in 1..Len(response.errors) :
                            /\ response.errors[i].row = k + 1
                            /\ response.errors[i].field = f
                            /\ response.errors[i].msg = ErrRange

====
